---- MODULE Spec2Model ----
(***************************************************************************)
(* Boot flow of the MariOS kernel (kernel/src/main.rs): kernel_main and    *)
(* its helpers check_framebuffer_size, get_first_ata_drive,                *)
(* get_user_partition, and the terminal handlers panic,                    *)
(* alloc_error_handler and hlt_loop.                                       *)
(*                                                                         *)
(* Option<T> is modelled as a sequence of length 0 (None) or 1 (Some),     *)
(* Result<T, E> as a pair <<"Ok", v>> or <<"Err", e>>.                     *)
(***************************************************************************)
EXTENDS Integers, Sequences, FiniteSets, TLC

VARIABLES
    pc,                  \* position of the single execution context
    boot_info,           \* the BootInfo handed over by the bootloader
    global_framebuffer,  \* the process-wide framebuffer slot
    log,                 \* records passed to the log facility, in order
    trace,               \* calls made by the boot flow, in order
    phys_offset,         \* local of kernel_main
    drive_info,          \* local of kernel_main
    mbr_bytes,           \* local of get_user_partition
    user_partition,      \* local of kernel_main
    entry_point,         \* local of kernel_main
    fatal,               \* payload of the panic / failed allocation
    ata_results,         \* results returned by the ata calls, in order
    hlt_count            \* hlt instructions executed by hlt_loop

vars == <<pc, boot_info, global_framebuffer, log, trace, phys_offset,
          drive_info, mbr_bytes, user_partition, entry_point, fatal,
          ata_results, hlt_count>>

----------------------------------------------------------------------------
(* Bounds *)

MaxHlt == 2
MaxDrives == 2

----------------------------------------------------------------------------
(* Option and Result *)

None == <<>>
Some(x) == <<x>>
IsSome(o) == Len(o) = 1
Unwrap(o) == o[1]

Ok(v) == <<"Ok", v>>
Err(e) == <<"Err", e>>
IsOk(r) == r[1] = "Ok"
IsErr(r) == r[1] = "Err"

----------------------------------------------------------------------------
(* Inputs supplied by the bootloader and by the devices *)

Widths == {640, 800}
Heights == {480, 600}
BytesPerPixel == {3, 4}
PixelFormats == {"Rgb", "Bgr"}
Strides == {640, 1024}

FrameBufferInfo ==
    [width : Widths, height : Heights, bytes_per_pixel : BytesPerPixel,
     pixel_format : PixelFormats, stride : Strides]

PhysicalMemoryOffsets == {None, Some("0xf000_0000_0000")}

BootInfo ==
    [framebuffer : {None} \cup {Some(fb) : fb \in FrameBufferInfo},
     physical_memory_offset : PhysicalMemoryOffsets]

AtaErrorValues == {"DeviceError", "Timeout"}

DriveIds == 1..MaxDrives

DriveInfo == [drive : DriveIds, model : {"QEMU HARDDISK"}]

RECURSIVE DriveListsOfLen(_)
DriveListsOfLen(n) ==
    IF n = 0 THEN {<<>>}
    ELSE {Append(l, [drive |-> d, model |-> "QEMU HARDDISK"]) :
            l \in DriveListsOfLen(n - 1), d \in DriveIds}

NoRepeat(l) == \A i, j \in 1..Len(l) : i # j => l[i].drive # l[j].drive

DriveLists ==
    {l \in UNION {DriveListsOfLen(n) : n \in 0..MaxDrives} : NoRepeat(l)}

EntryPoints == {"0x400000", "0x401000"}

----------------------------------------------------------------------------
(* The boot-record sector.  Only the bytes the boot flow looks at are kept: *)
(* the status, type, start and length bytes of partition entries 0 and 1,  *)
(* and the two signature bytes.                                            *)

SectorSize == 512
TableOffset == 446
EntrySize == 16
SignatureOffset == 510

EntryOffsets(i) ==
    {TableOffset + i * EntrySize + k : k \in {0, 4, 8, 9, 10, 11, 12, 13, 14, 15}}

Offsets == EntryOffsets(0) \cup EntryOffsets(1)
              \cup {SignatureOffset, SignatureOffset + 1}

\* alloc::vec![0u8; 512]
ZeroedBuffer == [o \in Offsets |-> 0]

\* Little-endian byte quadruples used to build sectors.
Words == {<<0, 0, 0, 0>>, <<1, 0, 0, 0>>, <<0, 8, 0, 0>>, <<0, 16, 0, 0>>}
StatusBytes == {0, 128}
TypeBytes == {0, 131}
Signatures == {<<85, 170>>, <<0, 0>>}

EntryBytes(i, status, type, lba, count) ==
    LET base == TableOffset + i * EntrySize IN
    [o \in EntryOffsets(i) |->
        IF o = base THEN status
        ELSE IF o = base + 4 THEN type
        ELSE IF o < base + 12 THEN lba[o - (base + 8) + 1]
        ELSE count[o - (base + 12) + 1]]

MakeSector(sig, e0, e1) ==
    [o \in Offsets |->
        IF o = SignatureOffset THEN sig[1]
        ELSE IF o = SignatureOffset + 1 THEN sig[2]
        ELSE IF o \in EntryOffsets(0) THEN e0[o]
        ELSE e1[o]]

Sectors ==
    {MakeSector(sig,
                EntryBytes(0, st0, ty0, lba0, <<0, 8, 0, 0>>),
                EntryBytes(1, 0, ty1, lba1, cnt1)) :
        sig \in Signatures, st0 \in StatusBytes, ty0 \in TypeBytes,
        lba0 \in {<<0, 0, 0, 0>>, <<1, 0, 0, 0>>},
        ty1 \in TypeBytes, lba1 \in Words, cnt1 \in Words}

\* LittleEndian::read_u32
read_u32(bytes, off) ==
    bytes[off] + 256 * bytes[off + 1] + 65536 * bytes[off + 2]
        + 16777216 * bytes[off + 3]

\* PartitionType::from_mbr_tag_byte
from_mbr_tag_byte(b) ==
    IF b = 0 THEN "Unused" ELSE IF b = 131 THEN "Linux" ELSE "Unknown"

PartitionTableEntry(bytes, i) ==
    LET base == TableOffset + i * EntrySize IN
    [bootable |-> bytes[base] = 128,
     partition_type |-> from_mbr_tag_byte(bytes[base + 4]),
     logical_block_address |-> read_u32(bytes, base + 8),
     sector_count |-> read_u32(bytes, base + 12)]

\* mbr::MasterBootRecord::from_bytes; entries are indexed from 0 as in the
\* source.
from_bytes(bytes) ==
    IF bytes[SignatureOffset] # 85 \/ bytes[SignatureOffset + 1] # 170
    THEN Err(<<"InvalidMBRSuffix">>)
    ELSE Ok([entries |-> [i \in {0, 1} |-> PartitionTableEntry(bytes, i)]])

----------------------------------------------------------------------------
(* enum KernelInitError, and the conversion from AtaError *)

FramebufferWrongSize == <<"FramebufferWrongSize">>
PhysicalMemoryNotMapped == <<"PhysicalMemoryNotMapped">>
AtaError(err) == <<"AtaError", err>>
AtaNoDrive == <<"AtaNoDrive">>
InvalidDiskMbr == <<"InvalidDiskMbr">>

\* impl From<AtaError> for KernelInitError
From(err) == AtaError(err)

----------------------------------------------------------------------------
(* Pure helpers of main.rs *)

FbWidth == 640
FbHeight == 480
FbBytesPerPixel == 4

\* A shape check that forgets the pixel depth.
check_framebuffer_size_NoDepth(fb_info) ==
    IF fb_info.width = FbWidth /\ fb_info.height = FbHeight
    THEN Ok(<<>>)
    ELSE Err(FramebufferWrongSize)

check_framebuffer_size(fb_info) ==
    IF fb_info.width = FbWidth
        /\ fb_info.height = FbHeight
        /\ fb_info.bytes_per_pixel = FbBytesPerPixel
    THEN Ok(<<>>)
    ELSE Err(FramebufferWrongSize)

\* ata::Partition::new
Partition(drive, start, count) ==
    [drive |-> drive, start_sector |-> start, sector_count |-> count]

\* A validation that looks for an unused entry 0 only.
get_user_partition_Entry0Only(drive, bytes) ==
    LET parsed == from_bytes(bytes) IN
    IF IsErr(parsed) THEN Err(InvalidDiskMbr)
    ELSE LET mbr == parsed[2] IN
         IF mbr.entries[0].partition_type = "Unused"
         THEN Err(InvalidDiskMbr)
         ELSE IF ~mbr.entries[0].bootable
                    \/ mbr.entries[0].logical_block_address # 0
         THEN Err(InvalidDiskMbr)
         ELSE Ok(Partition(drive,
                           mbr.entries[1].logical_block_address,
                           mbr.entries[1].sector_count))

\* A validation that describes entry 0 instead of entry 1.
get_user_partition_FromEntry0(drive, bytes) ==
    LET parsed == from_bytes(bytes) IN
    IF IsErr(parsed) THEN Err(InvalidDiskMbr)
    ELSE LET mbr == parsed[2] IN
         IF mbr.entries[0].partition_type = "Unused"
               \/ mbr.entries[1].partition_type = "Unused"
         THEN Err(InvalidDiskMbr)
         ELSE IF ~mbr.entries[0].bootable
                    \/ mbr.entries[0].logical_block_address # 0
         THEN Err(InvalidDiskMbr)
         ELSE Ok(Partition(drive,
                           mbr.entries[0].logical_block_address,
                           mbr.entries[0].sector_count))

\* get_user_partition from the parse of the sector onwards (lines 125-139);
\* the read that fills mbr_bytes is the action DriveRead.
get_user_partition(drive, bytes) ==
    LET parsed == from_bytes(bytes) IN
    IF IsErr(parsed) THEN Err(InvalidDiskMbr)
    ELSE LET mbr == parsed[2] IN
         IF mbr.entries[0].partition_type = "Unused"
               \/ mbr.entries[1].partition_type = "Unused"
         THEN Err(InvalidDiskMbr)
         ELSE IF ~mbr.entries[0].bootable
                    \/ mbr.entries[0].logical_block_address # 0
         THEN Err(InvalidDiskMbr)
         ELSE Ok(Partition(drive,
                           mbr.entries[1].logical_block_address,
                           mbr.entries[1].sector_count))


----------------------------------------------------------------------------
(* Logging and the two ways out of the boot flow *)

Info(msg) == <<"info", msg>>
Debug(msg) == <<"debug", msg>>
Error(msg) == <<"error", msg>>

\* A failed unwrap(): control passes to the panic handler with the payload.
Unwind(payload) ==
    /\ pc' = "panic"
    /\ fatal' = payload

Called(f) == \E i \in 1..Len(trace) : trace[i] = f

Init ==
    /\ pc = "start"
    /\ boot_info \in BootInfo
    /\ global_framebuffer = None
    /\ log = <<>>
    /\ trace = <<>>
    /\ phys_offset = None
    /\ drive_info = None
    /\ mbr_bytes = None
    /\ user_partition = None
    /\ entry_point = None
    /\ fatal = None
    /\ ata_results = <<>>
    /\ hlt_count = 0

----------------------------------------------------------------------------
(* The framebuffer slot of the graphics module: installing stores the       *)
(* handle, reading yields the stored handle or None.                        *)

set_global_framebuffer(framebuffer) == Some(framebuffer)

get_global_framebuffer == global_framebuffer

----------------------------------------------------------------------------
(* kernel_main, one action per step *)

\* A start that never installs the framebuffer it was given.
SetGlobalFramebuffer_Skipped ==
    /\ pc = "start"
    /\ pc' = "logger_init"
    /\ UNCHANGED <<boot_info, ata_results, global_framebuffer, log, trace,
                   phys_offset, drive_info, mbr_bytes, user_partition,
                   entry_point, fatal, hlt_count>>

\* lines 51-53
SetGlobalFramebuffer ==
    /\ pc = "start"
    /\ IF IsSome(boot_info.framebuffer)
       THEN /\ global_framebuffer' =
                  set_global_framebuffer(Unwrap(boot_info.framebuffer))
            /\ trace' = Append(trace, "graphics::set_global_framebuffer")
       ELSE UNCHANGED <<global_framebuffer, trace>>
    /\ pc' = "logger_init"
    /\ UNCHANGED <<boot_info, ata_results, log, phys_offset, drive_info,
                   mbr_bytes, user_partition, entry_point, fatal, hlt_count>>

\* line 55
LoggerInit ==
    /\ pc = "logger_init"
    /\ trace' = Append(trace, "logger::init")
    /\ \E r \in {Ok(<<>>), Err(<<"SetLoggerError">>)} :
          IF IsOk(r)
          THEN pc' = "banner" /\ UNCHANGED fatal
          ELSE Unwind(r[2])
    /\ UNCHANGED <<boot_info, ata_results, global_framebuffer, log,
                   phys_offset, drive_info, mbr_bytes, user_partition,
                   entry_point, hlt_count>>

\* lines 56-63
LogBanner ==
    /\ pc = "banner"
    /\ log' = log \o <<Info(<<"MariOS">>), Info(<<"Kernel v">>),
                        Info(<<"Bootloader v">>)>>
    /\ pc' = "framebuffer_check"
    /\ UNCHANGED <<boot_info, ata_results, global_framebuffer, trace,
                   phys_offset, drive_info, mbr_bytes, user_partition,
                   entry_point, fatal, hlt_count>>

\* A check whose result is dropped instead of unwrapped.
FramebufferCheck_ResultDropped ==
    /\ pc = "framebuffer_check"
    /\ IF IsSome(get_global_framebuffer)
       THEN /\ log' = Append(log, Info(<<"Framebuffer size">>))
            /\ trace' = trace \o <<"graphics::get_global_framebuffer",
                                   "check_framebuffer_size">>
       ELSE /\ trace' = Append(trace, "graphics::get_global_framebuffer")
            /\ UNCHANGED log
    /\ pc' = "physical_memory_offset"
    /\ UNCHANGED <<boot_info, ata_results, global_framebuffer, phys_offset,
                   drive_info, mbr_bytes, user_partition, entry_point, fatal,
                   hlt_count>>

\* lines 64-73
FramebufferCheck ==
    /\ pc = "framebuffer_check"
    /\ IF IsSome(get_global_framebuffer)
       THEN LET fb_info == Unwrap(get_global_framebuffer)
                r == check_framebuffer_size(fb_info) IN
            /\ log' = Append(log, Info(<<"Framebuffer size">>))
            /\ trace' = trace \o <<"graphics::get_global_framebuffer",
                                   "check_framebuffer_size">>
            /\ IF IsOk(r)
               THEN pc' = "physical_memory_offset" /\ UNCHANGED fatal
               ELSE Unwind(r[2])
       ELSE /\ trace' = Append(trace, "graphics::get_global_framebuffer")
            /\ pc' = "physical_memory_offset"
            /\ UNCHANGED <<log, fatal>>
    /\ UNCHANGED <<boot_info, ata_results, global_framebuffer, phys_offset,
                   drive_info, mbr_bytes, user_partition, entry_point,
                   hlt_count>>

\* An absent offset replaced by a default instead of being fatal.
PhysicalMemoryOffset_Defaulted ==
    /\ pc = "physical_memory_offset"
    /\ phys_offset' = IF IsSome(boot_info.physical_memory_offset)
                      THEN boot_info.physical_memory_offset
                      ELSE Some("0x0")
    /\ pc' = "init_gdt"
    /\ UNCHANGED <<boot_info, ata_results, global_framebuffer, log, trace,
                   drive_info, mbr_bytes, user_partition, entry_point, fatal,
                   hlt_count>>

\* lines 75-79
PhysicalMemoryOffset ==
    /\ pc = "physical_memory_offset"
    /\ IF IsSome(boot_info.physical_memory_offset)
       THEN /\ phys_offset' = boot_info.physical_memory_offset
            /\ pc' = "init_gdt"
            /\ UNCHANGED fatal
       ELSE /\ Unwind(PhysicalMemoryNotMapped)
            /\ UNCHANGED phys_offset
    /\ UNCHANGED <<boot_info, ata_results, global_framebuffer, log, trace,
                   drive_info, mbr_bytes, user_partition, entry_point,
                   hlt_count>>

\* The common shape of lines 80-87: log msg, call f, fall through to next.
Step(msg, f, next) ==
    /\ log' = Append(log, Info(<<msg>>))
    /\ trace' = Append(trace, f)
    /\ pc' = next
    /\ UNCHANGED <<boot_info, ata_results, global_framebuffer, phys_offset,
                   drive_info, mbr_bytes, user_partition, entry_point, fatal,
                   hlt_count>>

\* Variants of the steps below with the calls misplaced.
InitGdt_MemoryFirst ==
    /\ pc = "init_gdt"
    /\ Step("Setting up kernel memory", "memory::init_memory", "init_idt")

InitGdt_IdtFirst ==
    /\ pc = "init_gdt"
    /\ Step("Loading IDT", "idt::init_idt", "init_idt")

InitMemory_Skipped ==
    /\ pc = "init_memory"
    /\ Step("Enabling interrupts", "idt::init_interrupts", "ata_init")

\* lines 80-81
InitGdt ==
    /\ pc = "init_gdt"
    /\ Step("Loading GDT", "userspace::init_gdt", "init_idt")

\* lines 82-83
InitIdt ==
    /\ pc = "init_idt"
    /\ Step("Loading IDT", "idt::init_idt", "init_memory")

\* lines 84-85
InitMemory ==
    /\ pc = "init_memory"
    /\ Step("Setting up kernel memory", "memory::init_memory",
            "init_interrupts")

\* lines 86-87
InitInterrupts ==
    /\ pc = "init_interrupts"
    /\ Step("Enabling interrupts", "idt::init_interrupts", "ata_init")

\* lines 89-90 and 115: ata::init()? inside get_first_ata_drive
AtaInit ==
    /\ pc = "ata_init"
    /\ log' = Append(log, Info(<<"Initializing ATA">>))
    /\ trace' = Append(trace, "ata::init")
    /\ \E r \in {Ok(<<>>)} \cup {Err(e) : e \in AtaErrorValues} :
          /\ ata_results' = Append(ata_results, r)
          /\ IF IsOk(r)
             THEN pc' = "ata_list" /\ UNCHANGED fatal
             ELSE Unwind(From(r[2]))
    /\ UNCHANGED <<boot_info, global_framebuffer, phys_offset, drive_info,
                   mbr_bytes, user_partition, entry_point, hlt_count>>

\* A discovery that takes the last drive of the list.
AtaList_LastDrive ==
    /\ pc = "ata_list"
    /\ trace' = Append(trace, "ata::list")
    /\ \E r \in {Ok(l) : l \in DriveLists} \cup {Err(e) : e \in AtaErrorValues} :
          /\ ata_results' = Append(ata_results, r)
          /\ IF IsErr(r)
             THEN /\ Unwind(From(r[2]))
                  /\ UNCHANGED <<drive_info, log>>
             ELSE IF r[2] = <<>>
             THEN /\ Unwind(AtaNoDrive)
                  /\ UNCHANGED <<drive_info, log>>
             ELSE /\ drive_info' = Some(r[2][Len(r[2])])
                  /\ log' = Append(log, Debug(<<"Found drive">>))
                  /\ pc' = "get_user_partition"
                  /\ UNCHANGED fatal
    /\ UNCHANGED <<boot_info, global_framebuffer, phys_offset, mbr_bytes,
                   user_partition, entry_point, hlt_count>>

\* lines 116-119, the unwrap of line 90 and the debug record of lines 91-95
AtaList ==
    /\ pc = "ata_list"
    /\ trace' = Append(trace, "ata::list")
    /\ \E r \in {Ok(l) : l \in DriveLists} \cup {Err(e) : e \in AtaErrorValues} :
          /\ ata_results' = Append(ata_results, r)
          /\ IF IsErr(r)
             THEN /\ Unwind(From(r[2]))
                  /\ UNCHANGED <<drive_info, log>>
             ELSE IF r[2] = <<>>
             THEN /\ Unwind(AtaNoDrive)
                  /\ UNCHANGED <<drive_info, log>>
             ELSE /\ drive_info' = Some(Head(r[2]))
                  /\ log' = Append(log, Debug(<<"Found drive">>))
                  /\ pc' = "get_user_partition"
                  /\ UNCHANGED fatal
    /\ UNCHANGED <<boot_info, global_framebuffer, phys_offset, mbr_bytes,
                   user_partition, entry_point, hlt_count>>

\* lines 96 and 123: entry to get_user_partition and the allocation of the
\* sector buffer, which either succeeds or ends in alloc_error_handler
AllocMbr ==
    /\ pc = "get_user_partition"
    /\ trace' = Append(trace, "get_user_partition")
    /\ \E allocated \in BOOLEAN :
          IF allocated
          THEN /\ mbr_bytes' = Some(ZeroedBuffer)
               /\ pc' = "drive_read"
               /\ UNCHANGED fatal
          ELSE /\ pc' = "alloc_error"
               /\ fatal' = <<"alloc failed", "Layout", SectorSize>>
               /\ UNCHANGED mbr_bytes
    /\ UNCHANGED <<boot_info, ata_results, global_framebuffer, log,
                   phys_offset, drive_info, user_partition, entry_point,
                   hlt_count>>

\* A read whose result is dropped instead of unwrapped.
DriveRead_ErrorIgnored ==
    /\ pc = "drive_read"
    /\ trace' = Append(trace, "drive.read")
    /\ \E r \in {Ok(s) : s \in Sectors} \cup {Err(e) : e \in AtaErrorValues} :
          IF IsOk(r)
          THEN /\ mbr_bytes' = Some(r[2])
               /\ ata_results' = Append(ata_results, Ok(<<>>))
          ELSE /\ ata_results' = Append(ata_results, r)
               /\ UNCHANGED mbr_bytes
    /\ pc' = "from_bytes"
    /\ UNCHANGED <<boot_info, global_framebuffer, log, phys_offset,
                   drive_info, user_partition, entry_point, fatal, hlt_count>>

\* line 124: drive.read(&mut mbr_bytes, 0, 1).unwrap()
DriveRead ==
    /\ pc = "drive_read"
    /\ trace' = Append(trace, "drive.read")
    /\ \E r \in {Ok(s) : s \in Sectors} \cup {Err(e) : e \in AtaErrorValues} :
          IF IsOk(r)
          THEN /\ mbr_bytes' = Some(r[2])
               /\ ata_results' = Append(ata_results, Ok(<<>>))
               /\ pc' = "from_bytes"
               /\ UNCHANGED fatal
          ELSE /\ ata_results' = Append(ata_results, r)
               /\ Unwind(<<"ata::AtaError", r[2]>>)
               /\ UNCHANGED mbr_bytes
    /\ UNCHANGED <<boot_info, global_framebuffer, log, phys_offset,
                   drive_info, user_partition, entry_point, hlt_count>>

\* lines 125-139, the unwrap of line 96 and the debug record of line 97
ValidateMbr ==
    /\ pc = "from_bytes"
    /\ trace' = Append(trace, "from_bytes")
    /\ LET r == get_user_partition(Unwrap(drive_info).drive, Unwrap(mbr_bytes)) IN
          IF IsOk(r)
          THEN /\ user_partition' = Some(r[2])
               /\ log' = Append(log, Debug(<<"user partition size">>))
               /\ pc' = "init_fs"
               /\ UNCHANGED fatal
          ELSE /\ Unwind(r[2])
               /\ UNCHANGED <<user_partition, log>>
    /\ UNCHANGED <<boot_info, ata_results, global_framebuffer, phys_offset,
                   drive_info, mbr_bytes, entry_point, hlt_count>>

\* line 98
InitFs ==
    /\ pc = "init_fs"
    /\ trace' = Append(trace, "filesystem::init_fs")
    /\ pc' = "load_program"
    /\ UNCHANGED <<boot_info, ata_results, global_framebuffer, log,
                   phys_offset, drive_info, mbr_bytes, user_partition,
                   entry_point, fatal, hlt_count>>

\* A failed load replaced by a default entry point instead of being fatal.
LoadProgram_Defaulted ==
    /\ pc = "load_program"
    /\ trace' = Append(trace, "program::load_program")
    /\ \E r \in {Ok(e) : e \in EntryPoints} \cup {Err(<<"LoadError">>)} :
          entry_point' = IF IsOk(r) THEN Some(r[2]) ELSE Some("0x0")
    /\ pc' = "enter_userspace"
    /\ UNCHANGED <<boot_info, ata_results, global_framebuffer, log,
                   phys_offset, drive_info, mbr_bytes, user_partition, fatal,
                   hlt_count>>

\* A failed load that leaves the flow waiting instead of panicking.
LoadProgram_Spin ==
    /\ pc = "load_program"
    /\ trace' = Append(trace, "program::load_program")
    /\ \E r \in {Ok(e) : e \in EntryPoints} \cup {Err(<<"LoadError">>)} :
          IF IsOk(r)
          THEN /\ entry_point' = Some(r[2])
               /\ pc' = "enter_userspace"
          ELSE /\ pc' = "load_program_failed"
               /\ UNCHANGED entry_point
    /\ UNCHANGED <<boot_info, ata_results, global_framebuffer, log,
                   phys_offset, drive_info, mbr_bytes, user_partition,
                   fatal, hlt_count>>

\* line 99
LoadProgram ==
    /\ pc = "load_program"
    /\ trace' = Append(trace, "program::load_program")
    /\ \E r \in {Ok(e) : e \in EntryPoints} \cup {Err(<<"LoadError">>)} :
          IF IsOk(r)
          THEN /\ entry_point' = Some(r[2])
               /\ pc' = "enter_userspace"
               /\ UNCHANGED fatal
          ELSE /\ Unwind(r[2])
               /\ UNCHANGED entry_point
    /\ UNCHANGED <<boot_info, ata_results, global_framebuffer, log,
                   phys_offset, drive_info, mbr_bytes, user_partition,
                   hlt_count>>

\* line 100: the call does not return
EnterUserspace ==
    /\ pc = "enter_userspace"
    /\ trace' = Append(trace, "userspace::enter_userspace")
    /\ pc' = "userspace"
    /\ UNCHANGED <<boot_info, ata_results, global_framebuffer, log,
                   phys_offset, drive_info, mbr_bytes, user_partition,
                   entry_point, fatal, hlt_count>>

----------------------------------------------------------------------------
(* Terminal handlers *)

\* A panic handler that halts without reporting.
panic_Silent ==
    /\ pc = "panic"
    /\ pc' = "hlt_loop"
    /\ UNCHANGED <<boot_info, ata_results, global_framebuffer, log, trace,
                   phys_offset, drive_info, mbr_bytes, user_partition,
                   entry_point, fatal, hlt_count>>

\* lines 148-152
panic ==
    /\ pc = "panic"
    /\ log' = Append(log, Error(fatal))
    /\ pc' = "hlt_loop"
    /\ UNCHANGED <<boot_info, ata_results, global_framebuffer, trace,
                   phys_offset, drive_info, mbr_bytes, user_partition,
                   entry_point, fatal, hlt_count>>

\* lines 154-158
alloc_error_handler ==
    /\ pc = "alloc_error"
    /\ log' = Append(log, Error(fatal))
    /\ pc' = "hlt_loop"
    /\ UNCHANGED <<boot_info, ata_results, global_framebuffer, trace,
                   phys_offset, drive_info, mbr_bytes, user_partition,
                   entry_point, fatal, hlt_count>>

\* lines 142-146: one iteration of the loop
hlt_loop ==
    /\ pc = "hlt_loop"
    /\ hlt_count < MaxHlt
    /\ hlt_count' = hlt_count + 1
    /\ UNCHANGED <<pc, boot_info, ata_results, global_framebuffer, log,
                   trace, phys_offset, drive_info, mbr_bytes, user_partition,
                   entry_point, fatal>>

kernel_main ==
    \/ SetGlobalFramebuffer
    \/ LoggerInit
    \/ LogBanner
    \/ FramebufferCheck
    \/ PhysicalMemoryOffset
    \/ InitGdt
    \/ InitIdt
    \/ InitMemory
    \/ InitInterrupts
    \/ AtaInit
    \/ AtaList
    \/ AllocMbr
    \/ DriveRead
    \/ ValidateMbr
    \/ InitFs
    \/ LoadProgram
    \/ EnterUserspace

Next ==
    \/ kernel_main
    \/ panic
    \/ alloc_error_handler
    \/ hlt_loop

Spec == Init /\ [][Next]_vars

\* The single execution context keeps executing instructions: a step of
\* kernel_main or of a handler that can be taken is eventually taken.
\* hlt_loop needs no fairness, it only waits.
FairSpec ==
    /\ Init
    /\ [][Next]_vars
    /\ WF_vars(kernel_main)
    /\ WF_vars(panic)
    /\ WF_vars(alloc_error_handler)

TypeOK ==
    /\ pc \in {"start", "logger_init", "banner", "framebuffer_check",
               "physical_memory_offset", "init_gdt", "init_idt",
               "init_memory", "init_interrupts", "ata_init", "ata_list",
               "get_user_partition", "drive_read", "from_bytes", "init_fs",
               "load_program", "enter_userspace", "userspace", "panic",
               "alloc_error", "hlt_loop"}
    /\ boot_info \in BootInfo
    /\ hlt_count \in 0..MaxHlt

----------------------------------------------------------------------------
(* Vocabulary of the properties *)

Restrict(seq, S) == SelectSeq(seq, LAMBDA f : f \in S)

IsPrefix(p, q) == Len(p) <= Len(q) /\ \A i \in 1..Len(p) : p[i] = q[i]

Count(f) == Cardinality({i \in 1..Len(trace) : trace[i] = f})

\* f was called, and g was called earlier
CalledAfter(f, g) ==
    \A i \in 1..Len(trace) :
        trace[i] = f => \E j \in 1..(i - 1) : trace[j] = g

Halting == pc \in {"panic", "alloc_error", "hlt_loop"}

InitCalls ==
    {"userspace::init_gdt", "idt::init_idt", "memory::init_memory",
     "idt::init_interrupts"}

----------------------------------------------------------------------------
(* C1 *)

\* C1 as stated: memory::init_memory is called before userspace::init_gdt
\* and idt::init_idt, and those before idt::init_interrupts; the calls made
\* so far are always an initial part of that order.
C1_MemoryBeforeTables ==
    IsPrefix(Restrict(trace, InitCalls),
             <<"memory::init_memory", "userspace::init_gdt", "idt::init_idt",
               "idt::init_interrupts">>)

\* C1, amended: the descriptor tables are set up first (userspace::init_gdt,
\* then idt::init_idt), memory::init_memory follows them, and
\* idt::init_interrupts comes last; no run makes these calls in another order.
C1_TablesBeforeMemory ==
    IsPrefix(Restrict(trace, InitCalls),
             <<"userspace::init_gdt", "idt::init_idt", "memory::init_memory",
               "idt::init_interrupts">>)

C1_Witness ==
    Restrict(trace, InitCalls) =
        <<"userspace::init_gdt", "idt::init_idt", "memory::init_memory",
          "idt::init_interrupts">>

----------------------------------------------------------------------------
(* C2 *)

\* C2: interrupts are enabled only by idt::init_interrupts, and every call of
\* it comes after both idt::init_idt and memory::init_memory have returned;
\* while either is outstanding the flow has not reached the ATA steps.
C2_InterruptsAfterIdtAndMemory ==
    /\ CalledAfter("idt::init_interrupts", "idt::init_idt")
    /\ CalledAfter("idt::init_interrupts", "memory::init_memory")
    /\ (pc = "init_interrupts" =>
            Called("idt::init_idt") /\ Called("memory::init_memory"))

C2_Witness ==
    /\ Called("idt::init_interrupts")
    /\ pc = "ata_init"

----------------------------------------------------------------------------
(* C3 *)

\* C3: there is no state in which idt::init_idt has been called and
\* userspace::init_gdt has not; the segment table is loaded first.
C3_GdtBeforeIdt ==
    /\ Called("idt::init_idt") => Called("userspace::init_gdt")
    /\ CalledAfter("idt::init_idt", "userspace::init_gdt")

C3_Witness ==
    /\ pc = "init_memory"
    /\ Called("idt::init_idt")

----------------------------------------------------------------------------
(* C4 *)

\* C4: once a fatal condition has occurred the only things that happen are
\* the error record and hlt_loop: no further call is made by the boot flow,
\* control never leaves the handlers, and in hlt_loop the last record of the
\* log is the error diagnostic of that condition.
C4_HaltedAbsorbing ==
    /\ [](pc = "hlt_loop" => log # <<>> /\ log[Len(log)] = Error(fatal))
    /\ [][fatal # None =>
            /\ pc' = "hlt_loop"
            /\ trace' = trace
            /\ fatal' = fatal
            /\ <<global_framebuffer, phys_offset, drive_info, mbr_bytes,
                 user_partition, entry_point>>' =
               <<global_framebuffer, phys_offset, drive_info, mbr_bytes,
                 user_partition, entry_point>>]_vars
    /\ [](Halting <=> fatal # None)

C4_Witness ==
    /\ pc = "hlt_loop"
    /\ hlt_count > 0
    /\ fatal = InvalidDiskMbr

----------------------------------------------------------------------------
(* C5, C6: the boot-record checks, stated on the bytes of the sector *)

Validated == Called("from_bytes")

SignatureOk(b) == b[510] = 85 /\ b[511] = 170
Entry0Unused(b) == b[450] = 0
Entry1Unused(b) == b[466] = 0
Entry0Bootable(b) == b[446] = 128
Entry0AtSector0(b) == b[454] = 0 /\ b[455] = 0 /\ b[456] = 0 /\ b[457] = 0

BadRecord(b) ==
    \/ ~SignatureOk(b)
    \/ Entry0Unused(b)
    \/ Entry1Unused(b)
    \/ ~Entry0Bootable(b)
    \/ ~Entry0AtSector0(b)

\* C5: for every sector read in which the signature is wrong, entry 0 or
\* entry 1 is unused, entry 0 is not bootable or entry 0 does not start at
\* sector 0, get_user_partition yields InvalidDiskMbr and no partition.
C5_BadRecordRejected ==
    Validated /\ BadRecord(Unwrap(mbr_bytes)) =>
        /\ fatal = InvalidDiskMbr
        /\ user_partition = None
        /\ Halting

\* a record whose only defect is that entry 1 is unused
C5_Witness ==
    /\ Validated
    /\ LET b == Unwrap(mbr_bytes) IN
          /\ SignatureOk(b) /\ ~Entry0Unused(b) /\ Entry0Bootable(b)
          /\ Entry0AtSector0(b)
          /\ Entry1Unused(b)
    /\ fatal = InvalidDiskMbr

\* C6: for every sector read that passes all of those checks,
\* get_user_partition succeeds and the partition's start sector and sector
\* count are the little-endian values of entry 1's start and length bytes
\* (never those of entry 0), on the drive that was read.
C6_PartitionFromEntry1 ==
    Validated /\ ~BadRecord(Unwrap(mbr_bytes)) =>
        LET b == Unwrap(mbr_bytes) IN
        /\ IsSome(user_partition)
        /\ Unwrap(user_partition).drive = Unwrap(drive_info).drive
        /\ Unwrap(user_partition).start_sector =
              b[470] + 256 * b[471] + 256 * 256 * b[472]
                  + 256 * 256 * 256 * b[473]
        /\ Unwrap(user_partition).sector_count =
              b[474] + 256 * b[475] + 256 * 256 * b[476]
                  + 256 * 256 * 256 * b[477]

\* entry 1 at sector 2048 with 4096 sectors
C6_Witness ==
    /\ Validated
    /\ ~BadRecord(Unwrap(mbr_bytes))
    /\ IsSome(user_partition)
    /\ Unwrap(user_partition).start_sector = 2048
    /\ Unwrap(user_partition).sector_count = 4096

----------------------------------------------------------------------------
(* C7, C8, C9: boot preconditions *)

ShapeOk(fb) == fb.width = 640 /\ fb.height = 480 /\ fb.bytes_per_pixel = 4

\* C7: whenever check_framebuffer_size has been applied, it failed with
\* FramebufferWrongSize exactly when the descriptor is not 640x480x4, for
\* every pixel format and stride; when it passed the flow went on.
C7_ShapeCheckExact ==
    Called("check_framebuffer_size") =>
        LET fb == Unwrap(global_framebuffer) IN
        /\ ShapeOk(fb) <=> fatal # FramebufferWrongSize
        /\ ~ShapeOk(fb) => Halting
        /\ ShapeOk(fb) /\ pc = "physical_memory_offset" => fatal = None

\* 800x600x4 is refused
C7_Witness ==
    /\ Called("check_framebuffer_size")
    /\ Unwrap(global_framebuffer).width = 800
    /\ Unwrap(global_framebuffer).height = 600
    /\ Unwrap(global_framebuffer).bytes_per_pixel = 4
    /\ fatal = FramebufferWrongSize

\* C8 as stated: whenever userspace::init_gdt has been reached, the shape
\* check has been performed and has passed.
C8_CheckedBeforeGdt ==
    pc = "init_gdt" \/ Called("userspace::init_gdt") =>
        /\ Called("check_framebuffer_size")
        /\ fatal # FramebufferWrongSize

\* C8, amended: whenever userspace::init_gdt has been reached, either the
\* bootloader supplied no framebuffer and no check was made, or the check
\* was made on the supplied descriptor, which is 640x480x4.
C8_CheckedIfSupplied ==
    pc = "init_gdt" \/ Called("userspace::init_gdt") =>
        IF boot_info.framebuffer = None
        THEN ~Called("check_framebuffer_size")
        ELSE /\ Called("check_framebuffer_size")
             /\ ShapeOk(Unwrap(boot_info.framebuffer))

C8_Witness ==
    /\ Called("userspace::init_gdt")
    /\ IsSome(boot_info.framebuffer)
    /\ Called("check_framebuffer_size")

BootSteps ==
    {"userspace::init_gdt", "idt::init_idt", "memory::init_memory",
     "idt::init_interrupts", "ata::init", "ata::list", "get_user_partition",
     "drive.read", "from_bytes", "filesystem::init_fs",
     "program::load_program", "userspace::enter_userspace"}

BadPrecondition ==
    \/ IsSome(boot_info.framebuffer) /\ ~ShapeOk(Unwrap(boot_info.framebuffer))
    \/ boot_info.physical_memory_offset = None

\* C9: in a run whose framebuffer has the wrong shape or whose
\* physical-memory offset is absent, none of the boot steps from GDT load to
\* userspace entry is ever called, and once the preconditions have been
\* examined the flow is in the panic handler or hlt_loop.
C9_PreconditionStopsBoot ==
    BadPrecondition =>
        /\ Restrict(trace, BootSteps) = <<>>
        /\ pc \in {"start", "logger_init", "banner", "framebuffer_check",
                   "physical_memory_offset", "panic", "hlt_loop"}

\* the offset is absent, the framebuffer is fine
C9_Witness ==
    /\ boot_info.physical_memory_offset = None
    /\ IsSome(boot_info.framebuffer)
    /\ ShapeOk(Unwrap(boot_info.framebuffer))
    /\ pc = "hlt_loop"
    /\ fatal = PhysicalMemoryNotMapped

----------------------------------------------------------------------------
(* C10 *)

LateCalls ==
    {"idt::init_interrupts", "ata::init", "ata::list", "get_user_partition",
     "drive.read", "from_bytes", "filesystem::init_fs",
     "program::load_program", "userspace::enter_userspace"}

\* C10: userspace::enter_userspace is called at most once; when it has been
\* called, interrupts were enabled, the first drive found, the partition
\* validated, the filesystem initialized and the program loaded, each once
\* and in that order, all successfully; it is the last call of the run, and
\* a run in which any step failed never calls it.
C10_EnterUserspaceOnceLast ==
    /\ Count("userspace::enter_userspace") <= 1
    /\ Halting => ~Called("userspace::enter_userspace")
    /\ Called("userspace::enter_userspace") =>
          /\ Restrict(trace, LateCalls) =
                <<"idt::init_interrupts", "ata::init", "ata::list",
                  "get_user_partition", "drive.read", "from_bytes",
                  "filesystem::init_fs", "program::load_program",
                  "userspace::enter_userspace">>
          /\ fatal = None
          /\ IsSome(drive_info)
          /\ IsSome(user_partition)
          /\ ~BadRecord(Unwrap(mbr_bytes))
          /\ entry_point \in {Some(e) : e \in EntryPoints}
          /\ pc = "userspace"

C10_Witness ==
    /\ pc = "userspace"
    /\ Called("userspace::enter_userspace")

----------------------------------------------------------------------------
(* C11 *)

UserMode == pc = "userspace"
Halted == pc = "hlt_loop"

\* C11: under fair scheduling of the boot flow every run eventually is in
\* user mode or in hlt_loop; it is never in both (user mode is never entered
\* in a run that met a fatal condition), each outcome once reached is kept,
\* and no call of the boot flow is made twice.
C11_Terminates ==
    /\ <>(UserMode \/ Halted)
    /\ [](~(Called("userspace::enter_userspace") /\ fatal # None))
    /\ [](\A i, j \in 1..Len(trace) : trace[i] = trace[j] => i = j)
    /\ [][(UserMode => UserMode') /\ (Halted => Halted')]_vars

\* a run that ends in hlt_loop after every step up to the program load ran
C11_Witness ==
    /\ Halted
    /\ hlt_count = 1
    /\ Called("program::load_program")
    /\ fatal = <<"LoadError">>

----------------------------------------------------------------------------
(* C12 *)

\* C12: get_first_ata_drive names each storage failure.  A failed ata::init
\* gives AtaError(e) with the error it returned, and ata::list is not called;
\* a failed ata::list gives AtaError(e); an empty list gives AtaNoDrive; in
\* these cases no drive is returned.  Otherwise the drive returned is the
\* first of the list, and a drive is only ever returned after both calls
\* succeeded.
C12_AtaFailuresNamed ==
    /\ Len(ata_results) >= 1 /\ IsErr(ata_results[1]) =>
          /\ fatal = AtaError(ata_results[1][2])
          /\ ~Called("ata::list")
          /\ Len(ata_results) = 1
          /\ drive_info = None
    /\ Len(ata_results) >= 2 =>
          LET r == ata_results[2] IN
          IF IsErr(r)
          THEN fatal = AtaError(r[2]) /\ drive_info = None
          ELSE IF Len(r[2]) = 0
          THEN fatal = AtaNoDrive /\ drive_info = None
          ELSE drive_info = Some(r[2][1])
    /\ IsSome(drive_info) =>
          /\ Len(ata_results) >= 2
          /\ IsOk(ata_results[1])
          /\ IsOk(ata_results[2])

\* two drives listed, drive 2 first
C12_Witness ==
    /\ Len(ata_results) >= 2
    /\ IsOk(ata_results[2])
    /\ Len(ata_results[2][2]) = 2
    /\ ata_results[2][2][1].drive = 2
    /\ IsSome(drive_info)
    /\ Unwrap(drive_info).drive = 2

----------------------------------------------------------------------------
(* C13 *)

\* C13 as stated: whenever get_user_partition succeeds, the partition's
\* sector count is greater than zero.
C13_SectorCountPositive ==
    IsSome(user_partition) => Unwrap(user_partition).sector_count > 0

\* C13, amended: whenever get_user_partition succeeds, entry 1 of the record
\* read is not marked unused (its type byte is not 0); the partition's sector
\* count is whatever entry 1's length bytes say, zero included.
C13_Entry1InUse ==
    IsSome(user_partition) =>
        LET b == Unwrap(mbr_bytes) IN
        /\ b[466] # 0
        /\ Unwrap(user_partition).sector_count >= 0
        /\ Unwrap(user_partition).sector_count = 0 <=>
              (b[474] = 0 /\ b[475] = 0 /\ b[476] = 0 /\ b[477] = 0)

\* a partition of zero sectors is returned
C13_Witness ==
    /\ IsSome(user_partition)
    /\ Unwrap(user_partition).sector_count = 0
    /\ pc = "init_fs"

----------------------------------------------------------------------------
(* C14 *)

\* C14: graphics::set_global_framebuffer is called at most once, and exactly
\* when the bootloader supplies a framebuffer; that call comes before
\* logger::init and before the read of the handle; after the first step of
\* kernel_main the slot never changes; it holds the supplied framebuffer if
\* one was installed, and a read without an installed handle yields None.
C14_FramebufferSetOnce ==
    /\ [](/\ Count("graphics::set_global_framebuffer") <= 1
          /\ (boot_info.framebuffer = None =>
                ~Called("graphics::set_global_framebuffer"))
          /\ (IsSome(boot_info.framebuffer) =>
                /\ CalledAfter("logger::init",
                               "graphics::set_global_framebuffer")
                /\ CalledAfter("graphics::get_global_framebuffer",
                               "graphics::set_global_framebuffer"))
          /\ (Called("graphics::set_global_framebuffer") =>
                get_global_framebuffer = boot_info.framebuffer)
          /\ (~Called("graphics::set_global_framebuffer") =>
                get_global_framebuffer = None))
    /\ [][pc # "start" => global_framebuffer' = global_framebuffer]_vars

\* the handle was installed, the logger initialized and the handle read
C14_Witness ==
    /\ Called("graphics::set_global_framebuffer")
    /\ Called("logger::init")
    /\ Called("graphics::get_global_framebuffer")
    /\ pc = "physical_memory_offset"

----------------------------------------------------------------------------
(* C15 *)

ReadFailed == Len(ata_results) = 3 /\ IsErr(ata_results[3])

\* C15: when the read of the boot-record sector fails, the run is in the
\* panic handler or hlt_loop with the read's error as payload; the buffer is
\* still the zero-filled one and has never been parsed or validated; no
\* partition exists, and the filesystem is never initialized, the program
\* never loaded and user mode never entered.
C15_ReadFailureFatal ==
    ReadFailed =>
        /\ Halting
        /\ fatal = <<"ata::AtaError", ata_results[3][2]>>
        /\ mbr_bytes = Some(ZeroedBuffer)
        /\ user_partition = None
        /\ ~Called("from_bytes")
        /\ ~Called("filesystem::init_fs")
        /\ ~Called("program::load_program")
        /\ ~Called("userspace::enter_userspace")

C15_Witness ==
    /\ ReadFailed
    /\ trace[Len(trace)] = "drive.read"
    /\ pc = "hlt_loop"

----------------------------------------------------------------------------
(* C16 *)

BadShape ==
    IsSome(boot_info.framebuffer) /\ ~ShapeOk(Unwrap(boot_info.framebuffer))

OffsetAbsent == boot_info.physical_memory_offset = None

ErrorRecords == {i \in 1..Len(log) : log[i][1] = "error"}

\* C16 as stated, for the two conditions that the boot information decides:
\* a run that met a fatal condition with a wrongly shaped framebuffer reports
\* FramebufferWrongSize, and one with a good or absent framebuffer and no
\* physical-memory offset reports PhysicalMemoryNotMapped.
C16_FiveStepOrder ==
    /\ Cardinality(ErrorRecords) <= 1
    /\ fatal # None /\ BadShape => fatal = FramebufferWrongSize
    /\ fatal # None /\ ~BadShape /\ OffsetAbsent =>
          fatal = PhysicalMemoryNotMapped

\* C16, amended: at most one fatal condition is reported per boot run, it
\* never changes, and it belongs to the earliest failing step in the order
\* logger initialization, framebuffer shape check, physical-memory-offset
\* presence, ATA drive discovery, boot-record buffer allocation, read and
\* validation, program load: whatever is reported, every earlier step
\* succeeded and no later step was evaluated.
C16_EarliestFailureReported ==
    /\ [](Cardinality(ErrorRecords) <= 1)
    /\ [][fatal # None => fatal' = fatal]_vars
    /\ [](fatal # None /\ BadShape =>
            fatal \in {<<"SetLoggerError">>, FramebufferWrongSize})
    /\ [](fatal # None /\ ~BadShape /\ OffsetAbsent =>
            fatal \in {<<"SetLoggerError">>, PhysicalMemoryNotMapped})
    /\ [](fatal = <<"SetLoggerError">> =>
            /\ trace[Len(trace)] = "logger::init"
            /\ ~Called("graphics::get_global_framebuffer")
            /\ phys_offset = None)
    /\ [](fatal = FramebufferWrongSize =>
            /\ BadShape
            /\ trace[Len(trace)] = "check_framebuffer_size"
            /\ phys_offset = None)
    /\ [](fatal = PhysicalMemoryNotMapped =>
            /\ ~BadShape
            /\ OffsetAbsent
            /\ Restrict(trace, BootSteps) = <<>>)
    /\ [](fatal # None /\ fatal[1] \in {"AtaError", "AtaNoDrive"} =>
            /\ ~BadShape /\ ~OffsetAbsent
            /\ Called("idt::init_interrupts")
            /\ trace[Len(trace)] \in {"ata::init", "ata::list"}
            /\ \A i \in 1..(Len(ata_results) - 1) : IsOk(ata_results[i])
            /\ drive_info = None)
    /\ [](fatal # None
              /\ fatal[1] \in {"alloc failed", "ata::AtaError", "InvalidDiskMbr"} =>
            /\ IsSome(drive_info)
            /\ trace[Len(trace)] \in
                  {"get_user_partition", "drive.read", "from_bytes"}
            /\ \A i \in 1..(Len(ata_results) - 1) : IsOk(ata_results[i])
            /\ user_partition = None)
    /\ [](fatal = <<"LoadError">> =>
            /\ IsSome(user_partition)
            /\ \A i \in 1..Len(ata_results) : IsOk(ata_results[i])
            /\ trace[Len(trace)] = "program::load_program"
            /\ entry_point = None)

\* wrong shape and no offset: the shape is reported, the offset never looked at
C16_Witness ==
    /\ BadShape
    /\ OffsetAbsent
    /\ pc = "hlt_loop"
    /\ fatal = FramebufferWrongSize
    /\ phys_offset = None
    /\ Cardinality(ErrorRecords) = 1

====
